---- MODULE Spec2Model ----
(***************************************************************************)
(* State-machine model of the shipping backend canister                    *)
(* (idev_shipping_icp_backend/src/lib.rs).                                 *)
(*                                                                         *)
(* The canister state is the six thread_local cells.  Every exposed method *)
(* runs to completion, so each is one atomic action.  A method is written  *)
(* as an operator X_call(caller, args) giving the value it returns (ret)   *)
(* together with the contents it leaves in the six cells (st); the action  *)
(* X installs those contents.  Statements about what a call returns or     *)
(* changes are checked by evaluating X_call in every reachable state.      *)
(*                                                                         *)
(* Fields that are opaque payload (names, e-mail, phones, addresses,       *)
(* package details, vehicle info and the cost computed from the package)   *)
(* are never read by any branch and are left out of the records.           *)
(***************************************************************************)
EXTENDS Integers, Sequences, FiniteSets, TLC

\* ---- bounds of the exploration -----------------------------------------
\* successful mutating calls explored from the empty canister
MaxOps == 4
\* shipments created
MaxShipments == 2
\* return requests created
MaxReturns == 1
\* tracking events per shipment
MaxHistory == 3
\* clock readings 0..MaxTime
MaxTime == 1
\* the same, for the deeper exploration with a single identity calling
SoloOps == 6
SoloShipments == 3

\* ---- value domains ------------------------------------------------------
Principal == {"p1", "p2", "p3"}

SoloPrincipal == {"p1"}

UserType == {"Customer", "Driver", "StoreOwner", "Admin"}

ShipmentStatus ==
  {"Created", "PickupScheduled", "PickedUp", "InTransit", "OutForDelivery",
   "Delivered", "Failed", "Returned", "Cancelled"}

\* Option<T>: None is the empty sequence, Some(x) the one-element sequence.
None == <<>>

Some(x) == <<x>>

\* Result<T, String>
Ok(v) == [ok |-> TRUE, err |-> "", value |-> Some(v)]

Err(msg) == [ok |-> FALSE, err |-> msg, value |-> None]

\* location and description arguments of update_shipment_status
Locations == {None}

Descriptions == {"arrived"}

VARIABLES users, shipments, drivers, return_requests,
          shipment_counter, return_counter, now

stores == <<users, shipments, drivers, return_requests,
            shipment_counter, return_counter>>

vars == <<users, shipments, drivers, return_requests,
          shipment_counter, return_counter, now>>

\* ---- helpers ------------------------------------------------------------
\* HashMap::insert(k, v)
Insert(m, k, v) == [x \in (DOMAIN m) \cup {k} |-> IF x = k THEN v ELSE m[x]]

DigitChars == <<"0", "1", "2", "3", "4", "5", "6", "7", "8", "9">>

RECURSIVE Decimal(_)
Decimal(n) ==
  IF n < 10 THEN <<DigitChars[n + 1]>>
  ELSE Decimal(n \div 10) \o <<DigitChars[(n % 10) + 1]>>

RECURSIVE ZeroPad(_, _)
ZeroPad(s, w) == IF Len(s) >= w THEN s ELSE ZeroPad(<<"0">> \o s, w)

\* format!("SH{:06}", c) / format!("RT{:06}", c): the id as a character string
FormatId(prefix, c) == prefix \o ZeroPad(Decimal(c), 6)

SH == <<"S", "H">>

RT == <<"R", "T">>

\* shipment ids a caller may name (issued already or not)
ShipmentIdArgs == {FormatId(SH, k) : k \in 1..MaxShipments}

SoloShipmentIdArgs == {FormatId(SH, k) : k \in 1..SoloShipments}

\* the contents of the six thread_local cells
cells ==
  [users |-> users, shipments |-> shipments, drivers |-> drivers,
   return_requests |-> return_requests,
   shipment_counter |-> shipment_counter, return_counter |-> return_counter]

\* number of successful mutating calls that lead to the contents st
RECURSIVE appended_events(_, _)
appended_events(m, keys) ==
  IF keys = {} THEN 0
  ELSE LET k == CHOOSE x \in keys : TRUE
       IN (Len(m[k].tracking_history) - 1) + appended_events(m, keys \ {k})

SizeOf(st) ==
  Cardinality(DOMAIN st.users) + Cardinality(DOMAIN st.drivers)
  + st.shipment_counter + st.return_counter
  + appended_events(st.shipments, DOMAIN st.shipments)

\* the bounds of an exploration: a call is explored while the contents it
\* leaves stay within them
Bounds ==
  [ops |-> MaxOps, shipments |-> MaxShipments, returns |-> MaxReturns,
   history |-> MaxHistory]

SoloBounds ==
  [ops |-> SoloOps, shipments |-> SoloShipments, returns |-> MaxReturns,
   history |-> MaxHistory]

Within(st, b) ==
  /\ SizeOf(st) <= b.ops
  /\ st.shipment_counter <= b.shipments
  /\ st.return_counter <= b.returns
  /\ \A id \in DOMAIN st.shipments :
       Len(st.shipments[id].tracking_history) <= b.history

\* a call ends: its writes are the canister's new state
Commit(r) ==
  /\ users' = r.st.users
  /\ shipments' = r.st.shipments
  /\ drivers' = r.st.drivers
  /\ return_requests' = r.st.return_requests
  /\ shipment_counter' = r.st.shipment_counter
  /\ return_counter' = r.st.return_counter
  /\ now' = now

Init ==
  /\ users = <<>>
  /\ shipments = <<>>
  /\ drivers = <<>>
  /\ return_requests = <<>>
  /\ shipment_counter = 0
  /\ return_counter = 0
  /\ now = 0

\* ic_cdk::api::time(): constant within a call, non-decreasing between calls
Tick ==
  /\ now < MaxTime
  /\ now' = now + 1
  /\ UNCHANGED stores

\* ---- register_user ------------------------------------------------------
\* mutant: the existence check is lost, a second registration overwrites
user_exists_Never(caller) == FALSE

user_exists(caller) == caller \in DOMAIN users

register_user_call(caller, user_type) ==
  IF user_exists(caller)
  THEN [ret |-> Err("User already registered"), st |-> cells]
  ELSE LET user == [id |-> caller, user_type |-> user_type,
                    created_at |-> now, is_active |-> TRUE]
       IN [ret |-> Ok(user),
           st |-> [cells EXCEPT !.users = Insert(users, caller, user)]]

register_user(caller, user_type, b) ==
  LET r == register_user_call(caller, user_type) IN
  /\ Within(r.st, b)
  /\ Commit(r)

\* ---- register_driver ----------------------------------------------------
\* mutant: the existence check is lost, a second registration overwrites
register_driver_call_Overwrites(caller) ==
  LET driver == [id |-> caller, current_location |-> None,
                 is_available |-> TRUE, rating |-> 5,
                 total_deliveries |-> 0, joined_at |-> now]
  IN [ret |-> Ok(driver),
      st |-> [cells EXCEPT !.drivers = Insert(drivers, caller, driver)]]

register_driver_call(caller) ==
  IF caller \in DOMAIN drivers
  THEN [ret |-> Err("Driver already registered"), st |-> cells]
  ELSE LET driver == [id |-> caller, current_location |-> None,
                      is_available |-> TRUE, rating |-> 5,
                      total_deliveries |-> 0, joined_at |-> now]
       IN [ret |-> Ok(driver),
           st |-> [cells EXCEPT !.drivers = Insert(drivers, caller, driver)]]

register_driver(caller, b) ==
  LET r == register_driver_call(caller) IN
  /\ Within(r.st, b)
  /\ Commit(r)

\* ---- create_shipment ----------------------------------------------------
\* the authorization match: None to go on, Some(message) to return Err
\* mutant: the role match lets a Driver through
create_shipment_check_AllowsDriver(caller) ==
  IF caller \in DOMAIN users
  THEN IF users[caller].user_type \in {"Customer", "StoreOwner", "Driver"}
       THEN None
       ELSE Some("Unauthorized to create shipments")
  ELSE Some("User not registered")

\* mutant: a caller without a User record is let through
create_shipment_check_AllowsUnregistered(caller) ==
  IF caller \in DOMAIN users
  THEN IF users[caller].user_type \in {"Customer", "StoreOwner"}
       THEN None
       ELSE Some("Unauthorized to create shipments")
  ELSE None

create_shipment_check(caller) ==
  IF caller \in DOMAIN users
  THEN IF users[caller].user_type \in {"Customer", "StoreOwner"}
       THEN None
       ELSE Some("Unauthorized to create shipments")
  ELSE Some("User not registered")

new_shipment(shipment_id, caller) ==
  [id |-> shipment_id, sender_id |-> caller, status |-> "Created",
   driver_id |-> None, created_at |-> now, updated_at |-> now,
   estimated_delivery |-> None, actual_delivery |-> None,
   tracking_history |->
     <<[timestamp |-> now, status |-> "Created", location |-> None,
        description |-> "Shipment created", updated_by |-> caller]>>,
   payment_status |-> "Pending"]

\* mutant: the counter is incremented before the authorization match
create_shipment_call_CountsFirst(caller) ==
  LET c == shipment_counter + 1
      e == create_shipment_check(caller) IN
  IF e # None
  THEN [ret |-> Err(e[1]), st |-> [cells EXCEPT !.shipment_counter = c]]
  ELSE LET shipment_id == FormatId(SH, c)
           shipment == new_shipment(shipment_id, caller)
       IN [ret |-> Ok(shipment),
           st |-> [cells EXCEPT
                     !.shipment_counter = c,
                     !.shipments = Insert(shipments, shipment_id, shipment)]]

create_shipment_call(caller) ==
  LET e == create_shipment_check(caller) IN
  IF e # None
  THEN [ret |-> Err(e[1]), st |-> cells]
  ELSE LET c == shipment_counter + 1
           shipment_id == FormatId(SH, c)
           shipment == new_shipment(shipment_id, caller)
       IN [ret |-> Ok(shipment),
           st |-> [cells EXCEPT
                     !.shipment_counter = c,
                     !.shipments = Insert(shipments, shipment_id, shipment)]]

create_shipment(caller, b) ==
  LET r == create_shipment_call(caller) IN
  /\ Within(r.st, b)
  /\ Commit(r)

\* ---- update_shipment_status ---------------------------------------------
\* the authorization block: None to go on, Some(message) to return Err
\* mutant: the driver is not exempted from the admin check
update_shipment_check_NoDriver(shipment, caller) ==
  IF shipment.sender_id # caller
  THEN IF caller \in DOMAIN users
       THEN IF users[caller].user_type = "Admin"
            THEN None
            ELSE Some("Unauthorized to update shipment")
       ELSE Some("User not registered")
  ELSE None

update_shipment_check(shipment, caller) ==
  IF shipment.sender_id # caller /\ shipment.driver_id # Some(caller)
  THEN IF caller \in DOMAIN users
       THEN IF users[caller].user_type = "Admin"
            THEN None
            ELSE Some("Unauthorized to update shipment")
       ELSE Some("User not registered")
  ELSE None

\* mutant: actual_delivery is written only while it is None
updated_shipment_SetOnce(shipment, caller, new_status, location, description) ==
  LET s1 == [shipment EXCEPT
               !.status = new_status,
               !.updated_at = now,
               !.tracking_history = Append(@,
                 [timestamp |-> now, status |-> new_status,
                  location |-> location, description |-> description,
                  updated_by |-> caller])]
  IN IF s1.status = "Delivered" /\ s1.actual_delivery = None
     THEN [s1 EXCEPT !.actual_delivery = Some(now)]
     ELSE s1

\* mutant: actual_delivery is cleared when the new status is not Delivered
updated_shipment_ClearsDelivery(shipment, caller, new_status, location, description) ==
  LET s1 == [shipment EXCEPT
               !.status = new_status,
               !.updated_at = now,
               !.tracking_history = Append(@,
                 [timestamp |-> now, status |-> new_status,
                  location |-> location, description |-> description,
                  updated_by |-> caller])]
  IN IF s1.status = "Delivered"
     THEN [s1 EXCEPT !.actual_delivery = Some(now)]
     ELSE [s1 EXCEPT !.actual_delivery = None]

updated_shipment(shipment, caller, new_status, location, description) ==
  LET s1 == [shipment EXCEPT
               !.status = new_status,
               !.updated_at = now,
               !.tracking_history = Append(@,
                 [timestamp |-> now, status |-> new_status,
                  location |-> location, description |-> description,
                  updated_by |-> caller])]
  IN IF s1.status = "Delivered"
     THEN [s1 EXCEPT !.actual_delivery = Some(now)]
     ELSE s1

\* mutant: a Delivered or Cancelled shipment accepts no further status
update_shipment_status_call_TerminalStates(caller, shipment_id, new_status, location, description) ==
  IF shipment_id \in DOMAIN shipments
  THEN LET e == update_shipment_check(shipments[shipment_id], caller) IN
       IF e # None
       THEN [ret |-> Err(e[1]), st |-> cells]
       ELSE IF shipments[shipment_id].status \in {"Delivered", "Cancelled"}
       THEN [ret |-> Err("Invalid status transition"), st |-> cells]
       ELSE LET s == updated_shipment(shipments[shipment_id], caller,
                                      new_status, location, description)
            IN [ret |-> Ok(s),
                st |-> [cells EXCEPT !.shipments[shipment_id] = s]]
  ELSE [ret |-> Err("Shipment not found"), st |-> cells]

update_shipment_status_call(caller, shipment_id, new_status, location, description) ==
  IF shipment_id \in DOMAIN shipments
  THEN LET e == update_shipment_check(shipments[shipment_id], caller) IN
       IF e # None
       THEN [ret |-> Err(e[1]), st |-> cells]
       ELSE LET s == updated_shipment(shipments[shipment_id], caller,
                                      new_status, location, description)
            IN [ret |-> Ok(s),
                st |-> [cells EXCEPT !.shipments[shipment_id] = s]]
  ELSE [ret |-> Err("Shipment not found"), st |-> cells]

update_shipment_status(caller, shipment_id, new_status, location, description, b) ==
  LET r == update_shipment_status_call(caller, shipment_id, new_status,
                                       location, description) IN
  /\ Within(r.st, b)
  /\ Commit(r)

\* ---- assign_driver_to_shipment ------------------------------------------
\* mutant: the named driver must have a Driver record
is_authorized_NeedsDriverRecord(caller, driver_id) ==
  IF caller \in DOMAIN users
  THEN /\ users[caller].user_type = "Admin" \/ caller = driver_id
       /\ driver_id \in DOMAIN drivers
  ELSE FALSE

is_authorized(caller, driver_id) ==
  IF caller \in DOMAIN users
  THEN users[caller].user_type = "Admin" \/ caller = driver_id
  ELSE FALSE

\* mutant: the status field is not set, only the event is pushed
assigned_shipment_KeepsStatus(shipment, caller, driver_id) ==
  [shipment EXCEPT
     !.driver_id = Some(driver_id),
     !.updated_at = now,
     !.tracking_history = Append(@,
       [timestamp |-> now, status |-> "PickupScheduled", location |-> None,
        description |-> "Driver assigned and pickup scheduled",
        updated_by |-> caller])]

\* mutant: the event replaces the history instead of being pushed onto it
assigned_shipment_ReplacesHistory(shipment, caller, driver_id) ==
  [shipment EXCEPT
     !.driver_id = Some(driver_id),
     !.status = "PickupScheduled",
     !.updated_at = now,
     !.tracking_history =
       <<[timestamp |-> now, status |-> "PickupScheduled", location |-> None,
          description |-> "Driver assigned and pickup scheduled",
          updated_by |-> caller]>>]

assigned_shipment(shipment, caller, driver_id) ==
  [shipment EXCEPT
     !.driver_id = Some(driver_id),
     !.status = "PickupScheduled",
     !.updated_at = now,
     !.tracking_history = Append(@,
       [timestamp |-> now, status |-> "PickupScheduled", location |-> None,
        description |-> "Driver assigned and pickup scheduled",
        updated_by |-> caller])]

\* mutant: the shipment is looked up before the caller is authorized
assign_driver_to_shipment_call_LooksUpFirst(caller, shipment_id, driver_id) ==
  IF shipment_id \in DOMAIN shipments
  THEN IF ~is_authorized(caller, driver_id)
       THEN [ret |-> Err("Unauthorized to assign driver"), st |-> cells]
       ELSE LET s == assigned_shipment(shipments[shipment_id], caller, driver_id)
            IN [ret |-> Ok(s),
                st |-> [cells EXCEPT !.shipments[shipment_id] = s]]
  ELSE [ret |-> Err("Shipment not found"), st |-> cells]

assign_driver_to_shipment_call(caller, shipment_id, driver_id) ==
  IF ~is_authorized(caller, driver_id)
  THEN [ret |-> Err("Unauthorized to assign driver"), st |-> cells]
  ELSE IF shipment_id \in DOMAIN shipments
  THEN LET s == assigned_shipment(shipments[shipment_id], caller, driver_id)
       IN [ret |-> Ok(s), st |-> [cells EXCEPT !.shipments[shipment_id] = s]]
  ELSE [ret |-> Err("Shipment not found"), st |-> cells]

assign_driver_to_shipment(caller, shipment_id, driver_id, b) ==
  LET r == assign_driver_to_shipment_call(caller, shipment_id, driver_id) IN
  /\ Within(r.st, b)
  /\ Commit(r)

\* ---- create_return_request ----------------------------------------------
\* the match on the looked-up shipment: None to go on, Some(message) for Err
\* mutant: the status test is lost
create_return_check_AnyStatus(shipment_id, caller) ==
  IF shipment_id \in DOMAIN shipments
  THEN IF shipments[shipment_id].sender_id # caller
       THEN Some("Unauthorized to request return")
       ELSE None
  ELSE Some("Shipment not found")

\* mutant: the sender test is lost
create_return_check_AnyCaller(shipment_id, caller) ==
  IF shipment_id \in DOMAIN shipments
  THEN IF shipments[shipment_id].status # "Delivered"
       THEN Some("Can only return delivered shipments")
       ELSE None
  ELSE Some("Shipment not found")

create_return_check(shipment_id, caller) ==
  IF shipment_id \in DOMAIN shipments
  THEN IF shipments[shipment_id].sender_id # caller
       THEN Some("Unauthorized to request return")
       ELSE IF shipments[shipment_id].status # "Delivered"
       THEN Some("Can only return delivered shipments")
       ELSE None
  ELSE Some("Shipment not found")

\* mutant: the return id is drawn from the shipment counter
create_return_request_call_SharedCounter(caller, shipment_id) ==
  LET e == create_return_check(shipment_id, caller) IN
  IF e # None
  THEN [ret |-> Err(e[1]), st |-> cells]
  ELSE LET c == shipment_counter + 1
           return_id == FormatId(RT, c)
           return_request ==
             [id |-> return_id, shipment_id |-> shipment_id,
              requester_id |-> caller, status |-> "Requested",
              created_at |-> now, processed_at |-> None]
       IN [ret |-> Ok(return_request),
           st |-> [cells EXCEPT
                     !.shipment_counter = c,
                     !.return_requests =
                        Insert(return_requests, return_id, return_request)]]

\* mutant: the shipment is marked Returned when the request is stored
create_return_request_call_MarksReturned(caller, shipment_id) ==
  LET e == create_return_check(shipment_id, caller) IN
  IF e # None
  THEN [ret |-> Err(e[1]), st |-> cells]
  ELSE LET c == return_counter + 1
           return_id == FormatId(RT, c)
           return_request ==
             [id |-> return_id, shipment_id |-> shipment_id,
              requester_id |-> caller, status |-> "Requested",
              created_at |-> now, processed_at |-> None]
       IN [ret |-> Ok(return_request),
           st |-> [cells EXCEPT
                     !.return_counter = c,
                     !.shipments[shipment_id].status = "Returned",
                     !.return_requests =
                        Insert(return_requests, return_id, return_request)]]

\* mutant: the counter is incremented before the shipment is looked up
create_return_request_call_CountsFirst(caller, shipment_id) ==
  LET c == return_counter + 1
      e == create_return_check(shipment_id, caller) IN
  IF e # None
  THEN [ret |-> Err(e[1]), st |-> [cells EXCEPT !.return_counter = c]]
  ELSE LET return_id == FormatId(RT, c)
           return_request ==
             [id |-> return_id, shipment_id |-> shipment_id,
              requester_id |-> caller, status |-> "Requested",
              created_at |-> now, processed_at |-> None]
       IN [ret |-> Ok(return_request),
           st |-> [cells EXCEPT
                     !.return_counter = c,
                     !.return_requests =
                        Insert(return_requests, return_id, return_request)]]

create_return_request_call(caller, shipment_id) ==
  LET e == create_return_check(shipment_id, caller) IN
  IF e # None
  THEN [ret |-> Err(e[1]), st |-> cells]
  ELSE LET c == return_counter + 1
           return_id == FormatId(RT, c)
           return_request ==
             [id |-> return_id, shipment_id |-> shipment_id,
              requester_id |-> caller, status |-> "Requested",
              created_at |-> now, processed_at |-> None]
       IN [ret |-> Ok(return_request),
           st |-> [cells EXCEPT
                     !.return_counter = c,
                     !.return_requests =
                        Insert(return_requests, return_id, return_request)]]

create_return_request(caller, shipment_id, b) ==
  LET r == create_return_request_call(caller, shipment_id) IN
  /\ Within(r.st, b)
  /\ Commit(r)

\* ---- get_platform_stats -------------------------------------------------
is_delivered(s) == s.status = "Delivered"

\* mutant: Failed is excluded from pending as well
is_pending_ExcludesFailed(s) ==
  ~(s.status \in {"Delivered", "Cancelled", "Failed"})

is_pending(s) == ~(s.status \in {"Delivered", "Cancelled"})

\* .values().filter(..).count(): one pass over the map's values
RECURSIVE count_delivered(_, _)
count_delivered(m, keys) ==
  IF keys = {} THEN 0
  ELSE LET k == CHOOSE x \in keys : TRUE
       IN (IF is_delivered(m[k]) THEN 1 ELSE 0)
          + count_delivered(m, keys \ {k})

RECURSIVE count_pending(_, _)
count_pending(m, keys) ==
  IF keys = {} THEN 0
  ELSE LET k == CHOOSE x \in keys : TRUE
       IN (IF is_pending(m[k]) THEN 1 ELSE 0) + count_pending(m, keys \ {k})

platform_stats ==
  [total_users |-> Cardinality(DOMAIN users),
   total_shipments |-> Cardinality(DOMAIN shipments),
   total_drivers |-> Cardinality(DOMAIN drivers),
   delivered_shipments |-> count_delivered(shipments, DOMAIN shipments),
   pending_shipments |-> count_pending(shipments, DOMAIN shipments)]

\* a query: it reads the cells and writes none
get_platform_stats_call == [ret |-> platform_stats, st |-> cells]

get_platform_stats(b) ==
  LET r == get_platform_stats_call IN
  /\ Within(r.st, b)
  /\ Commit(r)

\* ---- the canister -------------------------------------------------------
\* any identity calls any method
Next ==
  \/ Tick
  \/ \E caller \in Principal, t \in UserType : register_user(caller, t, Bounds)
  \/ \E caller \in Principal : register_driver(caller, Bounds)
  \/ \E caller \in Principal : create_shipment(caller, Bounds)
  \/ \E caller \in Principal, id \in ShipmentIdArgs, st \in ShipmentStatus,
        loc \in Locations, d \in Descriptions :
        update_shipment_status(caller, id, st, loc, d, Bounds)
  \/ \E caller \in Principal, id \in ShipmentIdArgs, drv \in Principal :
        assign_driver_to_shipment(caller, id, drv, Bounds)
  \/ \E caller \in Principal, id \in ShipmentIdArgs :
        create_return_request(caller, id, Bounds)
  \/ get_platform_stats(Bounds)

Spec == Init /\ [][Next]_vars

\* the same canister with a single identity calling, explored deeper
SoloNext ==
  \/ Tick
  \/ \E caller \in SoloPrincipal, t \in UserType :
        register_user(caller, t, SoloBounds)
  \/ \E caller \in SoloPrincipal : register_driver(caller, SoloBounds)
  \/ \E caller \in SoloPrincipal : create_shipment(caller, SoloBounds)
  \/ \E caller \in SoloPrincipal, id \in SoloShipmentIdArgs,
        st \in ShipmentStatus, loc \in Locations, d \in Descriptions :
        update_shipment_status(caller, id, st, loc, d, SoloBounds)
  \/ \E caller \in SoloPrincipal, id \in SoloShipmentIdArgs,
        drv \in SoloPrincipal :
        assign_driver_to_shipment(caller, id, drv, SoloBounds)
  \/ \E caller \in SoloPrincipal, id \in SoloShipmentIdArgs :
        create_return_request(caller, id, SoloBounds)
  \/ get_platform_stats(SoloBounds)

SoloSpec == Init /\ [][SoloNext]_vars

\* ======================= properties =====================================
\* the error kinds, by the messages the methods return
AlreadyRegistered == {"User already registered", "Driver already registered"}

NotRegistered == {"User not registered"}

Unauthorized ==
  {"Unauthorized to create shipments", "Unauthorized to update shipment",
   "Unauthorized to assign driver", "Unauthorized to request return"}

NotFound == {"Shipment not found"}

InvalidState == {"Can only return delivered shipments"}

IsAdmin(p) == p \in DOMAIN users /\ users[p].user_type = "Admin"

Last(h) == h[Len(h)]

\* the number an id ends with: the digits after the two-letter prefix
DigitValue(ch) == CHOOSE d \in 0..9 : DigitChars[d + 1] = ch

RECURSIVE DecimalValue(_)
DecimalValue(ds) ==
  IF ds = <<>> THEN 0
  ELSE 10 * DecimalValue(SubSeq(ds, 1, Len(ds) - 1)) + DigitValue(Last(ds))

Suffix(id) == DecimalValue(SubSeq(id, 3, Len(id)))

\* C1: every stored shipment has a non-empty tracking_history whose last
\* event carries the shipment's current status.
C1_HistoryTracksStatus ==
  \A id \in DOMAIN shipments :
    LET s == shipments[id] IN
    /\ Len(s.tracking_history) >= 1
    /\ Last(s.tracking_history).status = s.status

\* a shipment that was assigned a driver and afterwards updated
C1_Witness ==
  \E id \in DOMAIN shipments :
    LET s == shipments[id] IN
    /\ Len(s.tracking_history) = 3
    /\ s.tracking_history[2].status = "PickupScheduled"
    /\ s.driver_id # None
    /\ s.status = "InTransit"

\* C2: a call of any of the six mutating methods that returns an error
\* leaves the four maps and both counters exactly as they were.
C2_FailedCallChangesNothing ==
  /\ \A c \in Principal, t \in UserType :
       LET r == register_user_call(c, t) IN ~r.ret.ok => r.st = cells
  /\ \A c \in Principal :
       LET r == register_driver_call(c) IN ~r.ret.ok => r.st = cells
  /\ \A c \in Principal :
       LET r == create_shipment_call(c) IN ~r.ret.ok => r.st = cells
  /\ \A c \in Principal, id \in ShipmentIdArgs, t \in ShipmentStatus,
        loc \in Locations, d \in Descriptions :
       LET r == update_shipment_status_call(c, id, t, loc, d)
       IN ~r.ret.ok => r.st = cells
  /\ \A c \in Principal, id \in ShipmentIdArgs, drv \in Principal :
       LET r == assign_driver_to_shipment_call(c, id, drv)
       IN ~r.ret.ok => r.st = cells
  /\ \A c \in Principal, id \in ShipmentIdArgs :
       LET r == create_return_request_call(c, id)
       IN ~r.ret.ok => r.st = cells

\* a populated canister in which calls of every mutating method fail
C2_Witness ==
  /\ \E c \in DOMAIN users : ~register_user_call(c, "Admin").ret.ok
  /\ \E c \in DOMAIN drivers : ~register_driver_call(c).ret.ok
  /\ \E c \in Principal : ~create_shipment_call(c).ret.ok
  /\ \E id \in DOMAIN shipments, c \in Principal :
       /\ ~update_shipment_status_call(c, id, "Delivered", None, "arrived").ret.ok
       /\ ~assign_driver_to_shipment_call(c, id, c).ret.ok
       /\ ~create_return_request_call(shipments[id].sender_id, id).ret.ok

\* C3: on an existing shipment assign_driver_to_shipment(id, d) succeeds
\* whenever the caller is d itself or an Admin, and returns Unauthorized for
\* every other caller.
C3_AssignAuthorization ==
  \A c \in Principal, d \in Principal, id \in DOMAIN shipments :
    LET r == assign_driver_to_shipment_call(c, id, d) IN
    IF c = d \/ IsAdmin(c)
    THEN r.ret.ok
    ELSE ~r.ret.ok /\ r.ret.err \in Unauthorized

\* C4: update_shipment_status on an existing shipment succeeds exactly for
\* the sender, the current driver and an Admin; any other caller gets
\* Unauthorized if it has a User record and NotRegistered if it has none; a
\* shipment id that does not exist gives NotFound.
C4_UpdateAuthorization ==
  \A c \in Principal, id \in ShipmentIdArgs, t \in ShipmentStatus,
     loc \in Locations, d \in Descriptions :
    LET r == update_shipment_status_call(c, id, t, loc, d) IN
    IF id \notin DOMAIN shipments
    THEN ~r.ret.ok /\ r.ret.err \in NotFound
    ELSE LET s == shipments[id]
             allowed == \/ c = s.sender_id
                        \/ s.driver_id = Some(c)
                        \/ IsAdmin(c)
         IN /\ r.ret.ok <=> allowed
            /\ ~allowed /\ c \in DOMAIN users => r.ret.err \in Unauthorized
            /\ ~allowed /\ c \notin DOMAIN users => r.ret.err \in NotRegistered

\* a shipment whose driver has no User record and is not the sender, next to
\* a registered caller who is refused
C4_Witness ==
  \E id \in DOMAIN shipments, d \in Principal, o \in Principal :
    LET s == shipments[id] IN
    /\ s.driver_id = Some(d)
    /\ d # s.sender_id
    /\ d \notin DOMAIN users
    /\ update_shipment_status_call(d, id, "PickedUp", None, "arrived").ret.ok
    /\ o \in DOMAIN users
    /\ IsAdmin(o)
    /\ ~update_shipment_status_call(d, FormatId(SH, MaxShipments), "PickedUp",
                                    None, "arrived").ret.ok

\* C5: create_return_request gives NotFound for an absent shipment,
\* Unauthorized for a caller who is not the sender, InvalidState for the
\* sender of a shipment that is not Delivered, and otherwise succeeds with a
\* stored request that is Requested, unprocessed, made by the caller for the
\* given shipment.
C5_ReturnRequestOutcome ==
  \A c \in Principal, id \in ShipmentIdArgs :
    LET r == create_return_request_call(c, id) IN
    IF id \notin DOMAIN shipments
    THEN ~r.ret.ok /\ r.ret.err \in NotFound
    ELSE IF c # shipments[id].sender_id
    THEN ~r.ret.ok /\ r.ret.err \in Unauthorized
    ELSE IF shipments[id].status # "Delivered"
    THEN ~r.ret.ok /\ r.ret.err \in InvalidState
    ELSE /\ r.ret.ok
         /\ LET q == r.ret.value[1] IN
            /\ q.status = "Requested"
            /\ q.processed_at = None
            /\ q.requester_id = c
            /\ q.shipment_id = id
            /\ q.id \in DOMAIN r.st.return_requests
            /\ r.st.return_requests[q.id] = q

\* a stored return request made by the sender of a delivered shipment
C5_Witness ==
  \E q \in DOMAIN return_requests :
    LET rr == return_requests[q] IN
    /\ rr.status = "Requested"
    /\ shipments[rr.shipment_id].status = "Delivered"
    /\ shipments[rr.shipment_id].sender_id = rr.requester_id

\* C6: the k-th successful create_shipment returns SH followed by k, an id
\* larger than every id issued before; return ids come from their own
\* counter: creating a shipment leaves the return counter alone and creating
\* a return request leaves the shipment counter alone.
C6_IdSequences ==
  /\ \A c \in Principal :
       LET r == create_shipment_call(c) IN
       r.ret.ok =>
         LET id == r.ret.value[1].id IN
         /\ SubSeq(id, 1, 2) = SH
         /\ Len(id) >= 8
         /\ Suffix(id) = Cardinality(DOMAIN shipments) + 1
         /\ id \notin DOMAIN shipments
         /\ \A old \in DOMAIN shipments : Suffix(old) < Suffix(id)
         /\ DOMAIN r.st.shipments = DOMAIN shipments \cup {id}
         /\ r.st.return_counter = return_counter
         /\ r.st.return_requests = return_requests
  /\ \A c \in Principal, sid \in ShipmentIdArgs :
       LET r == create_return_request_call(c, sid) IN
       r.ret.ok =>
         LET id == r.ret.value[1].id IN
         /\ SubSeq(id, 1, 2) = RT
         /\ Suffix(id) = Cardinality(DOMAIN return_requests) + 1
         /\ id \notin DOMAIN return_requests
         /\ r.st.shipment_counter = shipment_counter
         /\ r.st.shipments = shipments

\* two shipments issued in a row
C6_Witness ==
  /\ DOMAIN shipments = {FormatId(SH, 1), FormatId(SH, 2)}
  /\ FormatId(SH, 2) = <<"S", "H", "0", "0", "0", "0", "0", "2">>
  /\ shipments[FormatId(SH, 2)].created_at > shipments[FormatId(SH, 1)].created_at

\* C7 (as stated): actual_delivery is written once, at the step that makes
\* the status Delivered, and no later step changes or clears the value.
C7_SetOnce ==
  [][\A id \in DOMAIN shipments :
       LET a == shipments[id].actual_delivery
           b == shipments'[id].actual_delivery
       IN /\ a # None => b = a
          /\ a = None /\ b # None => shipments'[id].status = "Delivered"]_vars

\* C7 (amended): a new shipment has no actual_delivery; every successful
\* update to Delivered, the first and any later one, writes the current time
\* over whatever was there; no other step changes the field, and once set
\* it is never cleared.
C7_DeliveryTime ==
  [][/\ \A id \in (DOMAIN shipments') \ (DOMAIN shipments) :
          shipments'[id].actual_delivery = None
     /\ \A id \in DOMAIN shipments :
          LET s == shipments[id]
              t == shipments'[id]
              delivered_now ==
                /\ Len(t.tracking_history) = Len(s.tracking_history) + 1
                /\ Last(t.tracking_history).status = "Delivered"
          IN /\ s.actual_delivery # None => t.actual_delivery # None
             /\ t.actual_delivery # s.actual_delivery => delivered_now
             /\ delivered_now => t.actual_delivery = Some(now)]_vars

\* a shipment marked Delivered twice, at different times: the field holds
\* the later time
C7_Witness ==
  \E id \in DOMAIN shipments :
    LET s == shipments[id]
        h == s.tracking_history
    IN /\ Len(h) = 3
       /\ h[2].status = "Delivered"
       /\ h[3].status = "Delivered"
       /\ h[2].timestamp < h[3].timestamp
       /\ s.actual_delivery = Some(h[3].timestamp)

\* C8: register_user by an identity that already has a User returns
\* AlreadyRegistered and leaves the users map as it was, so the User of the
\* first registration (role included) stays; a first registration stores
\* the User it returns under the caller's identity.
C8_FirstRegistrationWins ==
  /\ \A u \in DOMAIN users, t \in UserType :
       LET r == register_user_call(u, t) IN
       /\ ~r.ret.ok
       /\ r.ret.err \in AlreadyRegistered
       /\ r.st.users = users
  /\ \A u \in Principal \ DOMAIN users, t \in UserType :
       LET r == register_user_call(u, t) IN
       /\ r.ret.ok
       /\ r.ret.value[1].id = u
       /\ r.ret.value[1].user_type = t
       /\ r.st.users[u] = r.ret.value[1]
  /\ \A u \in DOMAIN users : users[u].id = u

\* a Customer registered at an earlier time: a second registration now, as
\* Admin, is refused
C8_Witness ==
  \E u \in DOMAIN users :
    /\ users[u].user_type = "Customer"
    /\ users[u].created_at < now
    /\ ~register_user_call(u, "Admin").ret.ok

\* C9: create_shipment succeeds exactly for a caller whose User has role
\* Customer or StoreOwner, returns Unauthorized for a Driver or Admin and
\* NotRegistered for a caller without a User; the shipment it stores has
\* the caller as sender, status Created, no driver, no actual_delivery,
\* payment Pending and a single Created event made by the caller.
C9_CreateShipmentOutcome ==
  \A c \in Principal :
    LET r == create_shipment_call(c) IN
    IF c \notin DOMAIN users
    THEN ~r.ret.ok /\ r.ret.err \in NotRegistered
    ELSE IF users[c].user_type \in {"Driver", "Admin"}
    THEN ~r.ret.ok /\ r.ret.err \in Unauthorized
    ELSE /\ users[c].user_type \in {"Customer", "StoreOwner"}
         /\ r.ret.ok
         /\ LET s == r.ret.value[1] IN
            /\ s.id \in DOMAIN r.st.shipments
            /\ r.st.shipments[s.id] = s
            /\ s.sender_id = c
            /\ s.status = "Created"
            /\ s.driver_id = None
            /\ s.actual_delivery = None
            /\ s.payment_status = "Pending"
            /\ Len(s.tracking_history) = 1
            /\ s.tracking_history[1].status = "Created"
            /\ s.tracking_history[1].updated_by = c

\* a StoreOwner's fresh shipment, with a Driver or Admin user and an
\* unregistered identity around to be refused
C9_Witness ==
  \E id \in DOMAIN shipments, a \in DOMAIN users, p \in Principal :
    /\ users[shipments[id].sender_id].user_type = "StoreOwner"
    /\ Len(shipments[id].tracking_history) = 1
    /\ users[a].user_type \in {"Driver", "Admin"}
    /\ create_shipment_call(a).ret.err \in Unauthorized
    /\ p \notin DOMAIN users
    /\ create_shipment_call(p).ret.err \in NotRegistered

\* C10: get_platform_stats reports the number of stored shipments, the
\* number that are Delivered and, as pending, the number that are neither
\* Delivered nor Cancelled (Failed and Returned included), so the three
\* classes add up to the total; the call changes no state.
C10_PlatformStats ==
  LET r == get_platform_stats_call
      ids == DOMAIN shipments
      with(S) == Cardinality({id \in ids : shipments[id].status \in S})
  IN /\ r.ret.total_shipments = Cardinality(ids)
     /\ r.ret.delivered_shipments = with({"Delivered"})
     /\ r.ret.pending_shipments = with(ShipmentStatus \ {"Delivered", "Cancelled"})
     /\ r.ret.pending_shipments >= with({"Failed", "Returned"})
     /\ r.ret.delivered_shipments + r.ret.pending_shipments
          + with({"Cancelled"}) = r.ret.total_shipments
     /\ r.ret.total_users = Cardinality(DOMAIN users)
     /\ r.ret.total_drivers = Cardinality(DOMAIN drivers)
     /\ r.st = cells

\* three shipments, one Delivered, one Cancelled, one still Created: the
\* call reports 3, 1, 1
C10_Witness ==
  /\ Cardinality(DOMAIN shipments) = 3
  /\ Cardinality({id \in DOMAIN shipments :
                    shipments[id].status = "Delivered"}) = 1
  /\ Cardinality({id \in DOMAIN shipments :
                    shipments[id].status = "Cancelled"}) = 1
  /\ Cardinality({id \in DOMAIN shipments :
                    shipments[id].status = "Created"}) = 1
  /\ get_platform_stats_call.ret.total_shipments = 3
  /\ get_platform_stats_call.ret.delivered_shipments = 1
  /\ get_platform_stats_call.ret.pending_shipments = 1

\* the tracking histories after a call that leaves contents st: one event
\* longer, with the old events first, for the ids in extended, and the same
\* for every other stored shipment
HistoriesAfter(st, extended) ==
  \A id \in DOMAIN shipments :
    /\ id \in DOMAIN st.shipments
    /\ LET h == shipments[id].tracking_history
           g == st.shipments[id].tracking_history
       IN IF id \in extended
          THEN Len(g) = Len(h) + 1 /\ SubSeq(g, 1, Len(h)) = h
          ELSE g = h

\* C11: tracking_history is append-only: a successful update_shipment_status
\* or assign_driver_to_shipment puts exactly one event after the existing
\* events of the shipment it names, and every other call, successful or not,
\* leaves every existing history as it was.
C11_AppendOnly ==
  /\ \A c \in Principal, t \in UserType :
       HistoriesAfter(register_user_call(c, t).st, {})
  /\ \A c \in Principal : HistoriesAfter(register_driver_call(c).st, {})
  /\ \A c \in Principal : HistoriesAfter(create_shipment_call(c).st, {})
  /\ \A c \in Principal, id \in ShipmentIdArgs, t \in ShipmentStatus,
        loc \in Locations, d \in Descriptions :
       LET r == update_shipment_status_call(c, id, t, loc, d)
       IN HistoriesAfter(r.st, IF r.ret.ok THEN {id} ELSE {})
  /\ \A c \in Principal, id \in ShipmentIdArgs, drv \in Principal :
       LET r == assign_driver_to_shipment_call(c, id, drv)
       IN HistoriesAfter(r.st, IF r.ret.ok THEN {id} ELSE {})
  /\ \A c \in Principal, id \in ShipmentIdArgs :
       HistoriesAfter(create_return_request_call(c, id).st, {})
  /\ HistoriesAfter(get_platform_stats_call.st, {})

\* a shipment first updated and then assigned a driver: the Created event,
\* the update's event and the assignment's event in the order they happened
C11_Witness ==
  \E id \in DOMAIN shipments :
    LET h == shipments[id].tracking_history IN
    /\ Len(h) = 3
    /\ h[1].description = "Shipment created"
    /\ h[2].description = "arrived"
    /\ h[2].status = "InTransit"
    /\ h[3].description = "Driver assigned and pickup scheduled"

\* C12: a successful assign_driver_to_shipment(id, d) stores d as the driver
\* and PickupScheduled as the status whatever the status was, pushes one
\* PickupScheduled event made by the caller, and does not look at the
\* drivers map: an Admin's call on an existing shipment succeeds for every
\* d.  With the shipment it leaves, d passes the authorization of
\* update_shipment_status.
C12_AssignEffects ==
  \A c \in Principal, id \in ShipmentIdArgs, d \in Principal :
    LET r == assign_driver_to_shipment_call(c, id, d) IN
    /\ IsAdmin(c) /\ id \in DOMAIN shipments => r.ret.ok
    /\ r.ret.ok =>
         LET s == shipments[id]
             t == r.st.shipments[id]
         IN /\ r.ret.value[1] = t
            /\ t.driver_id = Some(d)
            /\ t.status = "PickupScheduled"
            /\ Len(t.tracking_history) = Len(s.tracking_history) + 1
            /\ Last(t.tracking_history).status = "PickupScheduled"
            /\ Last(t.tracking_history).updated_by = c
            /\ r.st.drivers = drivers
            /\ r.st.users = users
            /\ update_shipment_check(t, d) = None
            /\ \A st \in ShipmentStatus, loc \in Locations, e \in Descriptions :
                 updated_shipment(t, d, st, loc, e).status = st

\* a Delivered shipment and an identity d with neither a Driver nor a User
\* record, refused by update_shipment_status now: an Admin's assignment of d
\* succeeds, takes the shipment back to PickupScheduled and lets d update it
C12_Witness ==
  \E a \in Principal, id \in DOMAIN shipments, d \in Principal :
    LET r == assign_driver_to_shipment_call(a, id, d) IN
    /\ shipments[id].status = "Delivered"
    /\ d \notin DOMAIN drivers
    /\ d \notin DOMAIN users
    /\ update_shipment_check(shipments[id], d) # None
    /\ r.ret.ok
    /\ r.st.shipments[id].status = "PickupScheduled"
    /\ r.st.shipments[id].actual_delivery # None
    /\ update_shipment_check(r.st.shipments[id], d) = None

\* C13: update_shipment_status validates no transition: whatever status an
\* existing shipment has, a call by its sender, its driver or an Admin
\* succeeds for each of the nine status values and leaves that value as the
\* status, so a Delivered or Cancelled shipment can be taken back to Created.
C13_NoTransitionValidation ==
  \A c \in Principal, id \in DOMAIN shipments, t \in ShipmentStatus,
     loc \in Locations, d \in Descriptions :
    LET s == shipments[id]
        r == update_shipment_status_call(c, id, t, loc, d)
    IN c = s.sender_id \/ s.driver_id = Some(c) \/ IsAdmin(c) =>
         /\ s.status \in ShipmentStatus
         /\ r.ret.ok
         /\ r.st.shipments[id].status = t
         /\ r.ret.value[1].status = t

\* a shipment that was Delivered and was then moved back to Created
C13_Witness ==
  \E id \in DOMAIN shipments :
    LET h == shipments[id].tracking_history IN
    /\ Len(h) = 3
    /\ h[2].status = "Delivered"
    /\ h[3].status = "Created"
    /\ shipments[id].status = "Created"
    /\ \A t \in ShipmentStatus :
         update_shipment_status_call(shipments[id].sender_id, id, t, None,
                                     "arrived").ret.ok

\* C14: a successful create_return_request adds exactly one entry to the
\* return-request map, keeping the entries that were there, and increments
\* the return counter by one; the shipment it names, every other shipment,
\* the users map, the drivers map and the shipment counter stay as they were.
C14_ReturnRequestFrame ==
  \A c \in Principal, id \in ShipmentIdArgs :
    LET r == create_return_request_call(c, id) IN
    r.ret.ok =>
      LET q == r.ret.value[1].id IN
      /\ q \notin DOMAIN return_requests
      /\ DOMAIN r.st.return_requests = DOMAIN return_requests \cup {q}
      /\ \A old \in DOMAIN return_requests :
           r.st.return_requests[old] = return_requests[old]
      /\ r.st.return_counter = return_counter + 1
      /\ r.st.shipments = shipments
      /\ r.st.users = users
      /\ r.st.drivers = drivers
      /\ r.st.shipment_counter = shipment_counter

\* one request is stored and its shipment is still as the Delivered update
\* left it; a second request for the same shipment succeeds and is stored
\* next to the first
C14_Witness ==
  \E q \in DOMAIN return_requests :
    LET rr == return_requests[q]
        s == shipments[rr.shipment_id]
        r == create_return_request_call(rr.requester_id, rr.shipment_id)
    IN /\ return_counter = 1
       /\ s.status = "Delivered"
       /\ Len(s.tracking_history) = 2
       /\ r.ret.ok
       /\ Cardinality(DOMAIN r.st.return_requests) = 2
       /\ r.st.return_requests[q] = rr

C16_ReturnRequestsValid ==
  /\ \A q \in DOMAIN return_requests :
       LET rr == return_requests[q] IN
       /\ rr.id = q
       /\ rr.status = "Requested"
       /\ rr.processed_at = None
       /\ rr.shipment_id \in DOMAIN shipments
       /\ shipments[rr.shipment_id].sender_id = rr.requester_id
       /\ \E i \in DOMAIN shipments[rr.shipment_id].tracking_history :
            LET e == shipments[rr.shipment_id].tracking_history[i] IN
            e.status = "Delivered" /\ e.timestamp <= rr.created_at
  /\ \A c \in Principal, id \in SoloShipmentIdArgs :
       create_return_request_call(c, id).ret.ok =>
         /\ id \in DOMAIN shipments
         /\ shipments[id].status = "Delivered"
         /\ shipments[id].sender_id = c

\* a return request whose shipment has since left Delivered
C16_Witness ==
  \E q \in DOMAIN return_requests :
    LET s == shipments[return_requests[q].shipment_id] IN
    /\ s.status = "InTransit"
    /\ Len(s.tracking_history) = 3
    /\ s.tracking_history[2].status = "Delivered"
    /\ s.actual_delivery # None

\* C17: the shipment counter is the number of stored shipments and their
\* ids are SH followed by the numbers 1..shipment counter, each once, so a
\* refused create_shipment consumes no number; the same holds for the return
\* counter and the RT ids of the stored return requests.
C17_CountersMatchMaps ==
  /\ shipment_counter = Cardinality(DOMAIN shipments)
  /\ DOMAIN shipments = {FormatId(SH, k) : k \in 1..shipment_counter}
  /\ {Suffix(id) : id \in DOMAIN shipments} = 1..shipment_counter
  /\ \A id \in DOMAIN shipments :
       SubSeq(id, 1, 2) = SH /\ shipments[id].id = id
  /\ return_counter = Cardinality(DOMAIN return_requests)
  /\ DOMAIN return_requests = {FormatId(RT, k) : k \in 1..return_counter}
  /\ {Suffix(q) : q \in DOMAIN return_requests} = 1..return_counter
  /\ \A q \in DOMAIN return_requests :
       SubSeq(q, 1, 2) = RT /\ return_requests[q].id = q
  /\ \A c \in Principal :
       LET r == create_shipment_call(c) IN
       ~r.ret.ok => r.st.shipment_counter = shipment_counter
  /\ \A c \in Principal, id \in SoloShipmentIdArgs :
       LET r == create_return_request_call(c, id) IN
       ~r.ret.ok => r.st.return_counter = return_counter

\* two shipments and one return request, for the second shipment, with
\* calls around that are refused
C17_Witness ==
  /\ shipment_counter = 2
  /\ return_counter = 1
  /\ DOMAIN return_requests = {<<"R", "T", "0", "0", "0", "0", "0", "1">>}
  /\ return_requests[FormatId(RT, 1)].shipment_id =
       <<"S", "H", "0", "0", "0", "0", "0", "2">>
  /\ \E c \in Principal : ~create_shipment_call(c).ret.ok
  /\ \E c \in Principal :
       ~create_return_request_call(c, FormatId(SH, 1)).ret.ok

\* the positions of the Delivered events in a tracking history
DeliveredEvents(h) == {i \in DOMAIN h : h[i].status = "Delivered"}

\* C18: for every stored shipment, status Delivered implies that
\* actual_delivery is set, and actual_delivery is set exactly when the
\* tracking_history holds a Delivered event (it then is the time of the
\* latest one), so it can stay set while the status is no longer Delivered.
C18_DeliveryRecorded ==
  \A id \in DOMAIN shipments :
    LET s == shipments[id]
        ds == DeliveredEvents(s.tracking_history)
    IN /\ s.status = "Delivered" => s.actual_delivery # None
       /\ s.actual_delivery # None <=> ds # {}
       /\ ds # {} =>
            LET i == CHOOSE j \in ds : \A k \in ds : k <= j
            IN s.actual_delivery = Some(s.tracking_history[i].timestamp)

\* a delivered shipment that was afterwards assigned a driver: the status is
\* PickupScheduled and actual_delivery is still set
C18_Witness ==
  \E id \in DOMAIN shipments :
    LET s == shipments[id] IN
    /\ s.status = "PickupScheduled"
    /\ s.driver_id # None
    /\ s.actual_delivery # None
    /\ DeliveredEvents(s.tracking_history) = {2}
    /\ Len(s.tracking_history) = 3

\* C19: the sender_id of every stored shipment is the identity of a stored
\* User whose role is Customer or StoreOwner, and the first tracking event
\* was made by the sender; a call of update_shipment_status by the sender on
\* its shipment is therefore never answered NotRegistered or Unauthorized:
\* it succeeds.
C19_SenderIsRegistered ==
  \A id \in DOMAIN shipments :
    LET s == shipments[id] IN
    /\ s.sender_id \in DOMAIN users
    /\ users[s.sender_id].id = s.sender_id
    /\ users[s.sender_id].user_type \in {"Customer", "StoreOwner"}
    /\ s.tracking_history[1].updated_by = s.sender_id
    /\ \A t \in ShipmentStatus, loc \in Locations, d \in Descriptions :
         LET r == update_shipment_status_call(s.sender_id, id, t, loc, d) IN
         /\ r.ret.err \notin NotRegistered \cup Unauthorized
         /\ r.ret.ok

\* a Customer's shipment whose latest event was made by somebody else: the
\* first event is still the sender's, and the sender may update
C19_Witness ==
  \E id \in DOMAIN shipments :
    LET s == shipments[id] IN
    /\ users[s.sender_id].user_type = "Customer"
    /\ Len(s.tracking_history) = 2
    /\ Last(s.tracking_history).updated_by # s.sender_id
    /\ IsAdmin(Last(s.tracking_history).updated_by)
    /\ s.tracking_history[1].updated_by = s.sender_id
    /\ update_shipment_status_call(s.sender_id, id, "Cancelled", None,
                                   "arrived").ret.ok

\* shipment ids that name no stored shipment; SH000000 is never issued
MissingIds == (ShipmentIdArgs \cup {FormatId(SH, 0)}) \ DOMAIN shipments

\* C20: for a shipment id that does not exist, assign_driver_to_shipment
\* answers Unauthorized to a caller it does not authorize (one without a
\* User record, or a User that is neither an Admin nor the named driver) and
\* NotFound only to a caller it authorizes, the same callers that succeed on
\* an existing shipment; update_shipment_status answers NotFound to every
\* caller.
C20_ErrorPrecedence ==
  \A c \in Principal, id \in MissingIds :
    /\ \A d \in Principal :
         LET r == assign_driver_to_shipment_call(c, id, d)
             authorized == c \in DOMAIN users /\ (IsAdmin(c) \/ c = d)
         IN /\ ~r.ret.ok
            /\ authorized => r.ret.err \in NotFound
            /\ ~authorized => r.ret.err \in Unauthorized
            /\ \A e \in DOMAIN shipments :
                 assign_driver_to_shipment_call(c, e, d).ret.ok
                   <=> r.ret.err \in NotFound
    /\ \A t \in ShipmentStatus, loc \in Locations, d \in Descriptions :
         LET r == update_shipment_status_call(c, id, t, loc, d)
         IN ~r.ret.ok /\ r.ret.err \in NotFound

\* an Admin, a Customer with a shipment and an identity without a User
\* record, each naming a shipment id that was not issued
C20_Witness ==
  \E a \in DOMAIN users, u \in DOMAIN users, p \in Principal \ DOMAIN users :
    LET missing == FormatId(SH, shipment_counter + 1) IN
    /\ IsAdmin(a)
    /\ users[u].user_type = "Customer"
    /\ \E id \in DOMAIN shipments : shipments[id].sender_id = u
    /\ missing \in MissingIds
    /\ assign_driver_to_shipment_call(a, missing, p).ret.err \in NotFound
    /\ assign_driver_to_shipment_call(u, missing, u).ret.err \in NotFound
    /\ assign_driver_to_shipment_call(u, missing, p).ret.err \in Unauthorized
    /\ assign_driver_to_shipment_call(p, missing, p).ret.err \in Unauthorized
    /\ update_shipment_status_call(p, missing, "Delivered", None,
                                   "arrived").ret.err \in NotFound
    /\ update_shipment_status_call(u, missing, "Delivered", None,
                                   "arrived").ret.err \in NotFound

====
